---- MODULE Spec2Model ----
(***************************************************************************)
(* A model of agpu's GPU query profiler (src/graphics/profiler.rs,         *)
(* src/graphics/profiler/queryset.rs) and of the frame lifecycle that      *)
(* drives it (src/graphics/viewport.rs, src/graphics/viewport/frame.rs,    *)
(* src/graphics/viewport/render_pass.rs, src/graphics/gpu.rs), of the      *)
(* event loop of GpuProgram::run (src/winit.rs), of Buffer                 *)
(* (src/graphics/buffer.rs), of the vertex layout derive macros and of the *)
(* texture format conversions.                                             *)
(*                                                                         *)
(* The wgpu device, queue, encoder and surface are external collaborators: *)
(* every call the code makes into them is appended to `ops`, the ordered   *)
(* effects of the operation that ran last; `last` names that operation and *)
(* holds what it returned.  A panic ends the program.                      *)
(*                                                                         *)
(* Numbers: f32 values are kept as exact decimals m * 10^e (f32 rounding   *)
(* is not modelled); u32/u64 subtraction that goes below zero is the       *)
(* build-dependent choice between the overflow panic of a debug build and  *)
(* the wrapped value of a release build.                                   *)
(***************************************************************************)
EXTENDS Integers, Sequences, FiniteSets, TLC

\* ------------------------------------------------------------------ bounds
\* Longest label sequence explored in one frame.
MaxLabels == 3

\* Longest struct, in fields, enumerated for the derive macros (the structs of
\* the repository's tests are added whatever their length).
MaxFields == 2

\* Largest Buffer size, in bytes, a write or resize is let grow the buffer to.
MaxBufferSize == 16

\* Most changes of the window's size explored during one call of begin_frame.
MaxMoves == 1

\* ------------------------------------------------------------ input sets
\* Labels render passes are begun with, next to Frame::new's own label.
FrameStartLabel == "Frame start"
PassLabels == {"A", "B"}
Labels == PassLabels \cup {FrameStartLabel}
\* queue.get_timestamp_period(): nanoseconds per tick.
Periods == {1, 1000000}
\* Outcomes of surface.get_current_texture().
SurfaceErrors == {"Timeout", "Outdated", "Lost", "OutOfMemory"}
\* Surface / window sizes.
Sizes == {<<800, 600>>, <<0, 0>>}
\* Readback buffer contents, as raw 64-bit words: the timestamp buffers are
\* rising, falling, constant and mixed tick sequences.
Rising(i) == IF i = 1 THEN 1000 ELSE IF i = 2 THEN 1500 ELSE 2700
TickBuffers(n) ==
    {[i \in 1..n |-> Rising(i)], [i \in 1..n |-> Rising(n + 1 - i)],
     [i \in 1..n |-> 1500], [i \in 1..n |-> IF i = 2 THEN 1000 ELSE Rising(i)]}
StatBuffers(n) == {[i \in 1..n |-> 0], [i \in 1..n |-> i]}

\* Data written to a Buffer: size_of::<T>() and the number of elements; byte
\* offsets, indices and sizes asked for.
ElemSizes == {1, 4}
DataLens == 0..2
Offsets == {0, 4, 8}
Indices == 0..2
BufferSizes == {0, 8}

VARIABLES
    ts_qs,              \* Profiler.timestamp is Some(QuerySet)
    stats_qs,           \* Profiler.stats is Some(QuerySet)
    timestamp_period,   \* Profiler.timestamp_period
    overflow_checks,    \* the build panics on integer overflow (debug profile)
    markers,            \* Profiler.markers
    resolved,           \* Profiler.resolved
    passed,             \* labels handed to begin_section since new()/clear()
    frame,              \* a Frame is alive (between Frame::new and its drop)
    pass,               \* the RenderPass that is alive, if any
    sc_desc,            \* Viewport.sc_desc: <<width, height>>
    resize_to,          \* Viewport.resize_to: <<>> for None, <<size>> for Some
    window,             \* window.inner_size()
    pc,                 \* "idle", or "frame_new" inside Viewport::begin_frame
    ops,                \* effects of the last operation, in order
    last,               \* the last operation and its result
    panicked,           \* the program has panicked
    buffer_size,        \* Buffer.size of a Buffer
    usages,             \* Buffer.usages of that Buffer contains COPY_DST
    resolved_sets,      \* kinds of QuerySet resolved since the labels were cleared
    stat_slots,         \* slots statistics queries were begun at in the Frame alive
    query_open,         \* a statistics query is open in the alive render pass
    retries,            \* calls of begin_frame to itself within the call that is running
    moved,              \* changes of the window's size during that call
    frame2              \* the Frame of a second Viewport of the same Gpu

vars == <<ts_qs, stats_qs, timestamp_period, overflow_checks, markers, resolved,
          passed, frame, pass, sc_desc, resize_to, window, pc, ops, last, panicked,
          buffer_size, usages, resolved_sets, stat_slots, query_open, retries, moved,
          frame2>>

device_vars == <<ts_qs, stats_qs, timestamp_period, overflow_checks>>
label_vars == <<markers, resolved, passed>>
viewport_vars == <<sc_desc, resize_to, window>>
buffer_vars == <<buffer_size, usages>>
history_vars == <<resolved_sets, stat_slots, query_open>>
call_vars == <<retries, moved>>

\* ------------------------------------------------------------- helpers
Cmd(c, a) == [cmd |-> c, arg |-> a]
Ok(v) == [tag |-> "Ok", val |-> v]
Err(e) == [tag |-> "Err", val |-> e]
Unit == Ok(<<>>)
\* An operation, what it was given or found, and what it returned.  For
\* timestamp_report and total_statistics `arg` is what QuerySet::get returned,
\* for clear and the drop of a Frame the number of labels there were.
Call(op, arg, ret) == [op |-> op, arg |-> arg, ret |-> ret]
NoPass == [open |-> FALSE, pipeline_statistics |-> FALSE, on_frame |-> FALSE]
\* No second Frame; an alive one holds the query indices its encoder wrote.
NoFrame == [alive |-> FALSE, written |-> {}]

RECURSIVE Norm(_, _)
\* The decimal m * 10^e with the trailing zeros of m moved into e.
Norm(m, e) ==
    IF m = 0 THEN [m |-> 0, e |-> 0]
    ELSE IF m % 10 = 0 THEN Norm(m \div 10, e + 1)
    ELSE [m |-> m, e |-> e]

Dec(n) == Norm(n, 0)
DecMul(a, b) == Norm(a.m * b.m, a.e + b.e)
\* x / 1_000_000.0
DivMillion(x) == IF x.m = 0 THEN x ELSE [m |-> x.m, e |-> x.e - 6]

\* a - b on u64.  Below zero the subtraction overflows: a build with overflow
\* checks panics, a build without them wraps to 2^64 - mag.
u64_sub(a, b, checks) ==
    IF a >= b THEN [panic |-> FALSE, wrap |-> FALSE, mag |-> a - b]
    ELSE IF checks THEN [panic |-> TRUE, wrap |-> FALSE, mag |-> 0]
    ELSE [panic |-> FALSE, wrap |-> TRUE, mag |-> b - a]

\* `ts as f32`, exactly.  A wrapped operand stays symbolic: the value is
\* (2^64 - mag) * m * 10^e when wrap, and m * 10^e otherwise.
u64_as_f32(ts) ==
    IF ts.wrap THEN [wrap |-> TRUE, mag |-> ts.mag, m |-> 1, e |-> 0]
    ELSE [wrap |-> FALSE, mag |-> 0, m |-> Dec(ts.mag).m, e |-> Dec(ts.mag).e]

f32_mul(x, d) ==
    [wrap |-> x.wrap, mag |-> x.mag,
     m |-> DecMul([m |-> x.m, e |-> x.e], d).m,
     e |-> DecMul([m |-> x.m, e |-> x.e], d).e]

f32_div_million(x) ==
    [wrap |-> x.wrap, mag |-> x.mag,
     m |-> DivMillion([m |-> x.m, e |-> x.e]).m,
     e |-> DivMillion([m |-> x.m, e |-> x.e]).e]

\* ------------------------------------------------------------- QuerySet
RECURSIVE num_bits_set(_)
num_bits_set(n) == IF n = 0 THEN 0 ELSE (n % 2) + num_bits_set(n \div 2)

\* wgpu::PipelineStatisticsTypes::all().bits(): the five statistic types.
AllStatisticsBits == 31

QueryType_Timestamp == [kind |-> "Timestamp", bits |-> 0]
QueryType_PipelineStatistics ==
    [kind |-> "PipelineStatistics", bits |-> AllStatisticsBits]

\* A query size of one word whatever the kind.
query_ty_size_one(ty) == 1

\* query_ty_size: the size, in u64 words, of one query result of type ty.
query_ty_size(ty) ==
    IF ty.kind = "PipelineStatistics" THEN num_bits_set(ty.bits) ELSE 1

query_size(ty) == query_ty_size(ty)

\* QuerySet::resolve: the command recorded into the encoder.
QuerySet_resolve(ty, count) ==
    <<Cmd("resolve_query_set",
          [query_set |-> ty.kind, range |-> <<0, count * query_size(ty)>>])>>

\* The kinds of the QuerySets that the commands `o` resolve.
Resolved(o) ==
    {o[i].arg.query_set : i \in {j \in 1..Len(o) : o[j].cmd = "resolve_query_set"}}

\* A drop that unmaps the buffer while the view is still alive.
ScopedBufferView_drop_unmaps_first ==
    <<Cmd("unmap", "buffer"), Cmd("drop_view", "view")>>

\* impl Drop for ScopedBufferView: the view is dropped, then the buffer unmapped.
ScopedBufferView_drop ==
    <<Cmd("drop_view", "view"), Cmd("unmap", "buffer")>>

\* A get that maps the buffer whatever the count.
QuerySet_get_maps_always(ty, count, buffer, map_ok) ==
    IF ~map_ok
    THEN [ops |-> <<Cmd("map_async", count * query_size(ty)),
                    Cmd("poll", "Wait"),
                    Cmd("block_on", "Err")>>,
          ret |-> Err("BufferAsyncError")]
    ELSE [ops |-> <<Cmd("map_async", count * query_size(ty)),
                    Cmd("poll", "Wait"),
                    Cmd("block_on", "Ok"),
                    Cmd("get_mapped_range", count * query_size(ty)),
                    Cmd("to_vec", count * query_size(ty)),
                    Cmd("drop_view", "view"),
                    Cmd("unmap", "buffer")>>,
          ret |-> Ok(SubSeq(buffer, 1, count * query_size(ty)))]

\* A get that copies `count` words, whatever the size of one query.
QuerySet_get_count_words(ty, count, buffer, map_ok) ==
    IF count = 0 THEN [ops |-> <<>>, ret |-> Ok(<<>>)]
    ELSE IF ~map_ok
    THEN [ops |-> <<Cmd("map_async", count * query_size(ty)),
                    Cmd("poll", "Wait"),
                    Cmd("block_on", "Err")>>,
          ret |-> Err("BufferAsyncError")]
    ELSE [ops |-> <<Cmd("map_async", count * query_size(ty)),
                    Cmd("poll", "Wait"),
                    Cmd("block_on", "Ok"),
                    Cmd("get_mapped_range", count * query_size(ty)),
                    Cmd("to_vec", count * query_size(ty)),
                    Cmd("drop_view", "view"),
                    Cmd("unmap", "buffer")>>,
          ret |-> Ok(SubSeq(buffer, 1, count))]

\* QuerySet::get: the driver calls made and the value returned, for a readback
\* buffer holding the words `buffer` and a mapping that succeeds or fails.
QuerySet_get(ty, count, buffer, map_ok) ==
    IF count = 0 THEN [ops |-> <<>>, ret |-> Ok(<<>>)]
    ELSE IF ~map_ok
    THEN [ops |-> <<Cmd("map_async", count * query_size(ty)),
                    Cmd("poll", "Wait"),
                    Cmd("block_on", "Err")>>,
          ret |-> Err("BufferAsyncError")]
    ELSE [ops |-> <<Cmd("map_async", count * query_size(ty)),
                    Cmd("poll", "Wait"),
                    Cmd("block_on", "Ok"),
                    Cmd("get_mapped_range", count * query_size(ty)),
                    Cmd("to_vec", count * query_size(ty))>>
                  \o ScopedBufferView_drop,
          ret |-> Ok(SubSeq(buffer, 1, count * query_size(ty)))]

\* ------------------------------------------------------------- Profiler
\* MAX_QUERIES, the number of queries both QuerySets are created with.  It is
\* wgpu::QUERY_SET_MAX_QUERIES (8192 in wgpu); no code compares the label count
\* with it, so it stands here one below the longest label sequence explored.
MAX_QUERIES == MaxLabels - 1

query_count(ms) == Len(ms)

\* query_count() - 1 on u32.  With no label the subtraction overflows: with
\* overflow checks it panics, without them it wraps to u32::MAX, written here
\* as its two's complement reading -1.
query_index(ms, checks) ==
    IF query_count(ms) > 0 THEN [panic |-> FALSE, idx |-> query_count(ms) - 1]
    ELSE IF checks THEN [panic |-> TRUE, idx |-> 0]
    ELSE [panic |-> FALSE, idx |-> query_count(ms) - 1]

\* A begin_section that pushes at the front.
begin_section_front(ms, label) == <<label>> \o ms

\* Profiler::begin_section.
begin_section(ms, label) == Append(ms, label)

\* A timestamp that goes by either QuerySet.
timestamp_either_set(has_ts, has_stats, ms, checks) ==
    IF has_ts \/ has_stats
    THEN [panic |-> query_index(ms, checks).panic,
          ops |-> IF query_index(ms, checks).panic THEN <<>>
                  ELSE <<Cmd("write_timestamp", query_index(ms, checks).idx)>>]
    ELSE [panic |-> FALSE, ops |-> <<>>]

\* Profiler::timestamp: the command recorded into the encoder, or a panic.
timestamp(has_ts, has_stats, ms, checks) ==
    IF has_ts
    THEN [panic |-> query_index(ms, checks).panic,
          ops |-> IF query_index(ms, checks).panic THEN <<>>
                  ELSE <<Cmd("write_timestamp", query_index(ms, checks).idx)>>]
    ELSE [panic |-> FALSE, ops |-> <<>>]

\* Profiler::begin_stats.
begin_stats(has_ts, has_stats, ms, checks) ==
    IF has_stats
    THEN [panic |-> query_index(ms, checks).panic,
          ops |-> IF query_index(ms, checks).panic THEN <<>>
                  ELSE <<Cmd("begin_pipeline_statistics_query",
                             query_index(ms, checks).idx)>>]
    ELSE [panic |-> FALSE, ops |-> <<>>]

\* The query slots at which the commands `o` begin a statistics query.
StatisticsBegunAt(o) ==
    {o[i].arg : i \in {j \in 1..Len(o) : o[j].cmd = "begin_pipeline_statistics_query"}}

RECURSIVE QueryOpenAfter(_, _)
\* Whether a statistics query is open in the render pass once the commands
\* `o` are recorded into it, given whether one was open before.
QueryOpenAfter(open, o) ==
    IF o = <<>> THEN open
    ELSE QueryOpenAfter(IF o[1].cmd = "begin_pipeline_statistics_query" THEN TRUE
                        ELSE IF o[1].cmd = "end_pipeline_statistics_query" THEN FALSE
                        ELSE open,
                        Tail(o))

\* Profiler::end_stats.
end_stats(has_ts, has_stats) ==
    IF has_stats THEN <<Cmd("end_pipeline_statistics_query", 0)>> ELSE <<>>

\* Profiler::resolve: unwraps the statistics set, then resolves it.
resolve(has_ts, has_stats, ms) ==
    IF has_stats
    THEN [panic |-> FALSE, ops |-> QuerySet_resolve(QueryType_PipelineStatistics, query_count(ms))]
    ELSE [panic |-> TRUE, ops |-> <<>>]

\* Profiler::ts_to_millis.
ts_to_millis(ts, period) == f32_div_million(f32_mul(u64_as_f32(ts), Dec(period)))

\* A report entry that carries the label at the start of its interval.
report_entry_start_label(ms, val, period, checks, i) ==
    [label |-> ms[i + 1],
     panic |-> u64_sub(val[i + 2], val[i + 1], checks).panic,
     duration |-> f32_div_million(
                      ts_to_millis(u64_sub(val[i + 2], val[i + 1], checks), period))]

\* The entry timestamp_report pushes for enumerate() index i (0-based) of
\* markers[1..]: the marker there, and the time between val[i] and val[i+1].
report_entry(ms, val, period, checks, i) ==
    [label |-> ms[i + 2],
     panic |-> u64_sub(val[i + 2], val[i + 1], checks).panic,
     duration |-> f32_div_million(
                      ts_to_millis(u64_sub(val[i + 2], val[i + 1], checks), period))]

\* A timestamp_report that unwraps what QuerySet::get returned.
timestamp_report_unwrap(has_ts, ms, period, checks, got) ==
    IF ~has_ts THEN [panic |-> FALSE, ops |-> <<>>, ret |-> <<>>]
    ELSE IF got.ret.tag = "Err" \/ Len(ms) = 0
    THEN [panic |-> TRUE, ops |-> got.ops, ret |-> <<>>]
    ELSE IF \E i \in 0..(Len(ms) - 2) :
                report_entry(ms, got.ret.val, period, checks, i).panic
    THEN [panic |-> TRUE, ops |-> got.ops, ret |-> <<>>]
    ELSE [panic |-> FALSE, ops |-> got.ops,
          ret |-> [k \in 1..(Len(ms) - 1) |->
                    [label |-> report_entry(ms, got.ret.val, period, checks, k - 1).label,
                     duration |-> report_entry(ms, got.ret.val, period, checks, k - 1).duration]]]

\* Profiler::timestamp_report, given what QuerySet::get did.
timestamp_report(has_ts, ms, period, checks, got) ==
    IF ~has_ts THEN [panic |-> FALSE, ops |-> <<>>, ret |-> <<>>]
    ELSE IF got.ret.tag = "Err" THEN [panic |-> FALSE, ops |-> got.ops, ret |-> <<>>]
    ELSE IF Len(ms) = 0
    THEN \* markers.borrow()[1..] on an empty Vec: slice index out of range
         [panic |-> TRUE, ops |-> got.ops, ret |-> <<>>]
    ELSE IF \E i \in 0..(Len(ms) - 2) :
                report_entry(ms, got.ret.val, period, checks, i).panic
    THEN [panic |-> TRUE, ops |-> got.ops, ret |-> <<>>]
    ELSE [panic |-> FALSE, ops |-> got.ops,
          ret |-> [k \in 1..(Len(ms) - 1) |->
                    [label |-> report_entry(ms, got.ret.val, period, checks, k - 1).label,
                     duration |-> report_entry(ms, got.ret.val, period, checks, k - 1).duration]]]

\* A clear that resets the flag and keeps the labels.
clear_flag_only(ms, res) == [markers |-> ms, resolved |-> FALSE]

\* Profiler::clear.
clear(ms, res) == [markers |-> <<>>, resolved |-> FALSE]

\* ------------------------------------------------------------ GpuHandle
\* GpuHandle::begin_profiler_section: begin_section, then timestamp.
begin_profiler_section(has_ts, has_stats, ms, checks, label) ==
    [markers |-> begin_section(ms, label),
     panic |-> timestamp(has_ts, has_stats, begin_section(ms, label), checks).panic,
     ops |-> timestamp(has_ts, has_stats, begin_section(ms, label), checks).ops]

RECURSIVE SumEvery5(_, _)
\* The sum of the words of val at positions congruent to j modulo 5 (0-based).
SumEvery5(val, j) ==
    IF j >= Len(val) THEN 0 ELSE val[j + 1] + SumEvery5(val, j + 5)

\* GpuHandle::total_statistics, given what QuerySet::get did.
total_statistics(has_stats, got) ==
    IF ~has_stats THEN [ops |-> <<>>, ret |-> Err("QueryNone")]
    ELSE IF got.ret.tag = "Err" THEN [ops |-> got.ops, ret |-> got.ret]
    ELSE [ops |-> got.ops,
          ret |-> Ok([j \in 1..5 |-> SumEvery5(got.ret.val, j - 1)])]

\* impl Drop for CommandEncoder: finish the encoder and submit it.
CommandEncoder_drop(enc) == <<Cmd("finish", enc), Cmd("submit", enc)>>

\* CommandEncoder::finish(mut self): the wgpu encoder is taken and finished,
\* then `self` goes out of scope and Drop for CommandEncoder takes the same
\* encoder a second time.  Using the moved-from encoder is undefined
\* behaviour: either the second finish panics, or the drop runs through.
CommandEncoder_finish(enc, survives) ==
    [panic |-> ~survives,
     ops |-> <<Cmd("finish", enc)>>
             \o IF survives THEN CommandEncoder_drop(enc) ELSE <<Cmd("finish", enc)>>]

\* --------------------------------------------------------------- Buffer
\* bytemuck::cast_slice(data).len() for len elements of elem bytes each.
cast_slice_len(elem, len) == elem * len

\* Buffer::write_impl
write_impl(offset, bytes) == <<Cmd("write_buffer", <<offset, bytes>>)>>

\* Buffer::resize_impl(size, copy) on a buffer of sz bytes.
Buffer_resize_impl(sz, us, new_size, copy, survives) ==
    LET create == <<Cmd("create_buffer", new_size)>>
        fin == CommandEncoder_finish("resize", survives)
    IN IF ~copy
       THEN [size |-> new_size, usages |-> us, panic |-> FALSE,
             ops |-> create \o <<Cmd("destroy", sz)>>]
       ELSE IF fin.panic
       THEN [size |-> sz, usages |-> TRUE, panic |-> TRUE,
             ops |-> create \o <<Cmd("create_command_encoder", "resize"),
                                  Cmd("copy_buffer_to_buffer", sz)>> \o fin.ops]
       ELSE [size |-> new_size, usages |-> TRUE, panic |-> FALSE,
             ops |-> create \o <<Cmd("create_command_encoder", "resize"),
                                  Cmd("copy_buffer_to_buffer", sz)>> \o fin.ops
                     \o <<Cmd("submit", "resize"), Cmd("destroy", sz)>>]

\* A resize_if_smaller that resizes whenever the sizes differ.
resize_if_different(sz, us, new_size, copy, survives) ==
    IF sz = new_size
    THEN [size |-> sz, usages |-> us, panic |-> FALSE, ops |-> <<>>]
    ELSE Buffer_resize_impl(sz, us, new_size, copy, survives)

\* Buffer::resize_if_smaller(size, copy) on a buffer of sz bytes.
resize_if_smaller(sz, us, new_size, copy, survives) ==
    IF sz >= new_size
    THEN [size |-> sz, usages |-> us, panic |-> FALSE, ops |-> <<>>]
    ELSE Buffer_resize_impl(sz, us, new_size, copy, survives)

\* Buffer::write_at(offset, data), data being `bytes` bytes long.
write_at(sz, us, offset, bytes, survives) ==
    LET r == resize_if_smaller(sz, us, offset + bytes, TRUE, survives)
    IN [size |-> r.size, usages |-> r.usages, panic |-> r.panic,
        ops |-> IF r.panic THEN r.ops ELSE r.ops \o write_impl(offset, bytes)]

\* Buffer::write(data)
write(sz, us, bytes, survives) ==
    LET r == resize_if_smaller(sz, us, bytes, TRUE, survives)
    IN [size |-> r.size, usages |-> r.usages, panic |-> r.panic,
        ops |-> IF r.panic THEN r.ops ELSE r.ops \o write_impl(0, bytes)]

\* Buffer::write_index(index, data): the offset is index * size_of::<T>().
write_index(sz, us, index, elem, bytes, survives) ==
    write_at(sz, us, index * elem, bytes, survives)

\* ---------------------------------------------------------------- Frame
\* A drop that presents before it submits and clears.
Frame_drop_presents_first ==
    <<Cmd("present", "frame")>> \o CommandEncoder_drop("frame") \o <<Cmd("clear", "profiler")>>

\* impl Drop for Frame: the effects, in order.
Frame_drop ==
    CommandEncoder_drop("frame") \o <<Cmd("present", "frame")>> \o <<Cmd("clear", "profiler")>>

\* ------------------------------------------------------------- Viewport
\* Viewport::resize_impl: the driver calls made for the configured size.
resize_impl(size) ==
    IF size[1] = 0 \/ size[2] = 0 THEN <<>>
    ELSE <<Cmd("configure", size), Cmd("create_texture", size),
           Cmd("write_buffer", size)>>

\* Viewport::set_conf_size: the new configuration and whether it changed.
set_conf_size(conf, size) ==
    IF conf = size THEN [changed |-> FALSE, sc_desc |-> conf]
    ELSE [changed |-> TRUE, sc_desc |-> size]

\* A resolve_resize that applies the queued size and leaves it queued.
resolve_resize_keeps_queue(conf, queued) ==
    IF queued # <<>>
    THEN [sc_desc |-> set_conf_size(conf, queued[1]).sc_desc,
          resize_to |-> queued,
          ops |-> resize_impl(set_conf_size(conf, queued[1]).sc_desc)]
    ELSE [sc_desc |-> conf, resize_to |-> queued, ops |-> <<>>]

\* Viewport::resolve_resize.
resolve_resize(conf, queued) ==
    IF queued # <<>>
    THEN [sc_desc |-> set_conf_size(conf, queued[1]).sc_desc,
          resize_to |-> <<>>,
          ops |-> resize_impl(set_conf_size(conf, queued[1]).sc_desc)]
    ELSE [sc_desc |-> conf, resize_to |-> queued, ops |-> <<>>]

\* The depth at which the exploration of begin_frame's calls to itself stops.
MaxRetries == MaxMoves + 2

\* A resize_using_window that reports a change whatever the sizes.
resize_using_window_always_changed(conf, win) ==
    [changed |-> TRUE, sc_desc |-> win, ops |-> resize_impl(win)]

\* Viewport::resize_using_window.
resize_using_window(conf, win) ==
    [changed |-> set_conf_size(conf, win).changed,
     sc_desc |-> set_conf_size(conf, win).sc_desc,
     ops |-> IF set_conf_size(conf, win).changed
             THEN resize_impl(set_conf_size(conf, win).sc_desc) ELSE <<>>]

\* -------------------------------------------------- vertex buffer layouts
\* A field type is [shape, elem, n]: the scalar elem, the array [elem; n] or
\* the tuple (elem, ..., elem) of n elements.  u8n, i8n, u16n and i16n are
\* the transparent wrappers gen_norm_types! generates.
FieldType(shape, elem, n) == [shape |-> shape, elem |-> elem, n |-> n]

\* std::mem::size_of of an element type.
ElemSize(elem) ==
    CASE elem \in {"u8", "i8", "u8n", "i8n"} -> 1
      [] elem \in {"u16", "i16", "u16n", "i16n"} -> 2
      [] elem \in {"f32", "u32", "i32"} -> 4
      [] elem = "f64" -> 8

\* std::mem::size_of and align_of of a field type.
size_of(ty) == ElemSize(ty.elem) * ty.n
align_of(ty) == ElemSize(ty.elem)

\* The types gen_vertex_format_types! implements VertexFormatType for.
VertexFormatTypes ==
    {FieldType("array", e, n) :
        e \in {"u8", "i8", "u8n", "i8n", "u16", "i16", "u16n", "i16n"}, n \in {2, 4}}
    \cup {FieldType("array", e, n) : e \in {"f32", "u32", "i32", "f64"}, n \in 1..4}
    \cup {FieldType("scalar", e, 1) : e \in {"f32", "u32", "i32", "f64"}}
    \cup {FieldType("tuple", e, n) : e \in {"u8", "i8", "u16", "i16"}, n \in {2, 4}}
    \cup {FieldType("tuple", e, n) : e \in {"f32", "u32", "i32", "f64"}, n \in 2..4}

\* The wgpu::VertexFormat named <kind><bits>x<n> (<kind><bits> when n = 1).
VertexFormat(kind, bits, n) == [kind |-> kind, bits |-> bits, n |-> n]

\* <ty>::VERTEX_FORMAT_TYPE, as the table of gen_vertex_format_types! gives it.
VERTEX_FORMAT_TYPE(ty) ==
    VertexFormat(CASE ty.elem \in {"u8", "u16", "u32"} -> "Uint"
                   [] ty.elem \in {"i8", "i16", "i32"} -> "Sint"
                   [] ty.elem \in {"u8n", "u16n"} -> "Unorm"
                   [] ty.elem \in {"i8n", "i16n"} -> "Snorm"
                   [] ty.elem \in {"f32", "f64"} -> "Float",
                 8 * ElemSize(ty.elem), ty.n)

RECURSIVE attrs_from_fields_next_offset(_, _, _, _)
\* An attrs_from_fields that adds a field's size to the offset before it
\* writes the field's attribute.
attrs_from_fields_next_offset(fields, L, i, offset) ==
    IF i >= Len(fields) THEN <<>>
    ELSE <<[offset |-> offset + size_of(fields[i + 1]),
            shader_location |-> L + i,
            format |-> VERTEX_FORMAT_TYPE(fields[i + 1])]>>
         \o attrs_from_fields_next_offset(fields, L, i + 1,
                                          offset + size_of(fields[i + 1]))

RECURSIVE attrs_from_fields(_, _, _, _)
\* attrs_from_fields: the attributes of the fields from enumerate() index i
\* on, the cumulative offset being `offset` there.
attrs_from_fields(fields, L, i, offset) ==
    IF i >= Len(fields) THEN <<>>
    ELSE <<[offset |-> offset,
            shader_location |-> L + i,
            format |-> VERTEX_FORMAT_TYPE(fields[i + 1])]>>
         \o attrs_from_fields(fields, L, i + 1, offset + size_of(fields[i + 1]))

RECURSIVE SumSizes(_)
SumSizes(fields) ==
    IF fields = <<>> THEN 0 ELSE size_of(Head(fields)) + SumSizes(Tail(fields))

\* The largest alignment among the fields, 1 for no field.
MaxAlign(fields) ==
    IF fields = <<>> THEN 1
    ELSE CHOOSE a \in {align_of(fields[i]) : i \in 1..Len(fields)} :
            \A i \in 1..Len(fields) : align_of(fields[i]) <= a

\* std::mem::size_of::<Self>() of a struct with these fields: the fields'
\* sizes, padded to a multiple of the struct's alignment.
size_of_Self(fields) ==
    ((SumSizes(fields) + MaxAlign(fields) - 1) \div MaxAlign(fields)) * MaxAlign(fields)

\* #[derive(VertexLayout)]: the vertex_buffer_layout::<L>() generated.
vertex_layout(fields, L) ==
    [array_stride |-> size_of_Self(fields),
     step_mode |-> "Vertex",
     attributes |-> attrs_from_fields(fields, L, 0, 0)]

\* #[derive(VertexLayoutInstance)]: the vertex_buffer_layout::<L>() generated.
vertex_layout_instance(fields, L) ==
    [array_stride |-> size_of_Self(fields),
     step_mode |-> "Instance",
     attributes |-> attrs_from_fields(fields, L, 0, 0)]

\* The structs of tests/derive_vertex_layout.rs.
MixedTypes ==
    <<FieldType("array", "f32", 3), FieldType("array", "u8", 4),
      FieldType("array", "f32", 4), FieldType("tuple", "u16", 4)>>
PerInstanceData == <<FieldType("array", "f32", 4), FieldType("array", "f32", 3)>>

\* The structs the layouts are derived for: every implemented type as a
\* single field, the structs of up to MaxFields fields over a few types, and
\* the structs of the tests.
SampleTypes ==
    {FieldType("array", "f32", 3), FieldType("array", "u8", 4),
     FieldType("tuple", "u16", 4), FieldType("scalar", "f64", 1),
     FieldType("array", "u8n", 2)}
Structs ==
    {<<t>> : t \in VertexFormatTypes}
    \cup UNION {[1..n -> SampleTypes] : n \in 0..MaxFields}
    \cup {MixedTypes, PerInstanceData}
\* The first shader locations L the layouts are asked for.
Locations == {0, 3, 7}

\* ------------------------------------------------------ texture formats
\* A wgpu::TextureFormat: its name without the Srgb suffix, and whether it is
\* the sRGB variant.
TextureFormat(name, srgb) == [name |-> name, srgb |-> srgb]

\* The formats that are not sRGB variants, and the ones among them that have
\* an sRGB variant.
LinearFormatNames ==
    {"R8Unorm", "R8Snorm", "R8Uint", "R8Sint", "R16Uint", "R16Sint",
     "R16Float", "Rg8Unorm", "Rg8Snorm", "Rg8Uint", "Rg8Sint", "R32Uint",
     "R32Sint", "R32Float", "Rg16Uint", "Rg16Sint", "Rg16Float",
     "Rgba8Unorm", "Rgba8Snorm", "Rgba8Uint", "Rgba8Sint", "Bgra8Unorm",
     "Rgb10a2Unorm", "Rg11b10Float", "Rg32Uint", "Rg32Sint", "Rg32Float",
     "Rgba16Uint", "Rgba16Sint", "Rgba16Float", "Rgba32Uint", "Rgba32Sint",
     "Rgba32Float", "Depth32Float", "Depth24Plus", "Depth24PlusStencil8",
     "Rgb9e5Ufloat", "Bc1RgbaUnorm", "Bc2RgbaUnorm", "Bc3RgbaUnorm",
     "Bc4RUnorm", "Bc4RSnorm", "Bc5RgUnorm", "Bc5RgSnorm", "Bc6hRgbUfloat",
     "Bc6hRgbSfloat", "Bc7RgbaUnorm", "Etc2Rgb8Unorm", "Etc2Rgb8A1Unorm",
     "Etc2Rgba8Unorm", "EacR11Unorm", "EacR11Snorm", "EacRg11Unorm",
     "EacRg11Snorm", "Astc4x4RgbaUnorm", "Astc5x4RgbaUnorm",
     "Astc5x5RgbaUnorm", "Astc6x5RgbaUnorm", "Astc6x6RgbaUnorm",
     "Astc8x5RgbaUnorm", "Astc8x6RgbaUnorm", "Astc10x5RgbaUnorm",
     "Astc10x6RgbaUnorm", "Astc8x8RgbaUnorm", "Astc10x8RgbaUnorm",
     "Astc10x10RgbaUnorm", "Astc12x10RgbaUnorm", "Astc12x12RgbaUnorm",
     "R16Unorm", "R16Snorm", "Rg16Unorm", "Rg16Snorm", "Rgba16Unorm",
     "Rgba16Snorm"}
SrgbFormatNames ==
    {"Rgba8Unorm", "Bgra8Unorm", "Bc1RgbaUnorm", "Bc2RgbaUnorm",
     "Bc3RgbaUnorm", "Bc7RgbaUnorm", "Etc2Rgb8Unorm", "Etc2Rgb8A1Unorm",
     "Etc2Rgba8Unorm", "Astc4x4RgbaUnorm", "Astc5x4RgbaUnorm",
     "Astc5x5RgbaUnorm", "Astc6x5RgbaUnorm", "Astc6x6RgbaUnorm",
     "Astc8x5RgbaUnorm", "Astc8x6RgbaUnorm", "Astc10x5RgbaUnorm",
     "Astc10x6RgbaUnorm", "Astc8x8RgbaUnorm", "Astc10x8RgbaUnorm",
     "Astc10x10RgbaUnorm", "Astc12x10RgbaUnorm", "Astc12x12RgbaUnorm"}
TextureFormats ==
    {TextureFormat(n, FALSE) : n \in LinearFormatNames}
    \cup {TextureFormat(n, TRUE) : n \in SrgbFormatNames}

\* The arms of the match in TexFormat::linear and in TexFormat::srgb, by the
\* name of the format without the suffix.
LinearArms ==
    {"Rgba8Unorm", "Bgra8Unorm", "Bc1RgbaUnorm", "Bc2RgbaUnorm",
     "Bc3RgbaUnorm", "Bc7RgbaUnorm", "Etc2Rgb8Unorm", "Etc2Rgb8A1Unorm",
     "Etc2Rgba8Unorm", "Astc4x4RgbaUnorm", "Astc5x4RgbaUnorm",
     "Astc5x5RgbaUnorm", "Astc6x5RgbaUnorm", "Astc6x6RgbaUnorm",
     "Astc8x5RgbaUnorm", "Astc8x6RgbaUnorm"}
SrgbArms ==
    {"Rgba8Unorm", "Bgra8Unorm", "Bc1RgbaUnorm", "Bc2RgbaUnorm",
     "Bc3RgbaUnorm", "Bc7RgbaUnorm", "Etc2Rgb8Unorm", "Etc2Rgb8A1Unorm",
     "Etc2Rgba8Unorm", "Astc4x4RgbaUnorm", "Astc5x4RgbaUnorm",
     "Astc5x5RgbaUnorm", "Astc6x5RgbaUnorm", "Astc6x6RgbaUnorm",
     "Astc8x5RgbaUnorm", "Astc8x6RgbaUnorm"}

\* TexFormat::linear
linear(format) ==
    IF format.srgb /\ format.name \in LinearArms
    THEN TextureFormat(format.name, FALSE)
    ELSE format

\* TexFormat::srgb
srgb(format) ==
    IF ~format.srgb /\ format.name \in SrgbArms
    THEN TextureFormat(format.name, TRUE)
    ELSE format

\* ------------------------------------------------------------ the state
Init ==
    /\ ts_qs \in BOOLEAN
    /\ stats_qs \in BOOLEAN
    /\ timestamp_period \in Periods
    /\ overflow_checks \in BOOLEAN
    /\ markers = <<>>
    /\ resolved = FALSE
    /\ passed = <<>>
    /\ frame = FALSE
    /\ pass = NoPass
    /\ sc_desc = <<800, 600>>
    /\ resize_to = <<>>
    /\ window = <<800, 600>>
    /\ pc = "idle"
    /\ ops = <<>>
    /\ last = Call("new", <<>>, Unit)
    /\ panicked = FALSE
    /\ buffer_size = 8
    /\ usages = FALSE
    /\ resolved_sets = {}
    /\ stat_slots = {}
    /\ query_open = FALSE
    /\ retries = 0
    /\ moved = 0
    /\ frame2 = NoFrame

Running == ~panicked /\ pc = "idle"

\* ---------------------------------------------------- Profiler's methods
\* Profiler::begin_section(label)
BeginSection(label) ==
    /\ Running
    /\ Len(markers) < MaxLabels
    /\ markers' = begin_section(markers, label)
    /\ passed' = Append(passed, label)
    /\ ops' = <<>>
    /\ last' = Call("begin_section", label, Unit)
    /\ UNCHANGED <<history_vars, call_vars, frame2, buffer_vars, device_vars, resolved,
                   frame, pass, viewport_vars, pc, panicked>>

\* Profiler::timestamp(label, encoder)
Timestamp(label) ==
    /\ Running
    /\ ops' = timestamp(ts_qs, stats_qs, markers, overflow_checks).ops
    /\ panicked' = timestamp(ts_qs, stats_qs, markers, overflow_checks).panic
    /\ last' = Call("timestamp", <<>>, Unit)
    /\ UNCHANGED <<history_vars, call_vars, frame2, buffer_vars, device_vars, label_vars,
                   frame, pass, viewport_vars, pc>>

\* Profiler::begin_stats(render_pass)
BeginStats ==
    /\ Running
    /\ ops' = begin_stats(ts_qs, stats_qs, markers, overflow_checks).ops
    /\ panicked' = begin_stats(ts_qs, stats_qs, markers, overflow_checks).panic
    /\ last' = Call("begin_stats", <<>>, Unit)
    /\ UNCHANGED <<history_vars, call_vars, frame2, buffer_vars, device_vars, label_vars,
                   frame, pass, viewport_vars, pc>>

\* Profiler::end_stats(render_pass)
EndStats ==
    /\ Running
    /\ ops' = end_stats(ts_qs, stats_qs)
    /\ last' = Call("end_stats", <<>>, Unit)
    /\ UNCHANGED <<history_vars, call_vars, frame2, buffer_vars, device_vars, label_vars,
                   frame, pass, viewport_vars, pc, panicked>>

\* Profiler::resolve(encoder)
Resolve ==
    /\ Running
    /\ ops' = resolve(ts_qs, stats_qs, markers).ops
    /\ panicked' = resolve(ts_qs, stats_qs, markers).panic
    /\ resolved_sets' = resolved_sets \cup Resolved(resolve(ts_qs, stats_qs, markers).ops)
    /\ last' = Call("resolve", <<>>, Unit)
    /\ UNCHANGED <<stat_slots, query_open, call_vars, frame2, buffer_vars, device_vars,
                   label_vars, frame, pass, viewport_vars, pc>>

\* Profiler::query_count()
QueryCount ==
    /\ Running
    /\ ops' = <<>>
    /\ last' = Call("query_count", <<>>, Ok(query_count(markers)))
    /\ UNCHANGED <<history_vars, call_vars, frame2, buffer_vars, device_vars, label_vars,
                   frame, pass, viewport_vars, pc, panicked>>

\* Profiler::timestamp_report(device), for a readback buffer holding `buffer`
\* and a mapping that succeeds or fails.
TimestampReport(buffer, map_ok) ==
    /\ Running
    /\ LET got == QuerySet_get(QueryType_Timestamp, query_count(markers), buffer, map_ok)
           rep == timestamp_report(ts_qs, markers, timestamp_period, overflow_checks, got)
       IN /\ ops' = rep.ops
          /\ panicked' = rep.panic
          /\ last' = Call("timestamp_report",
                          IF ts_qs THEN got.ret ELSE Ok(<<>>),
                          Ok(rep.ret))
    /\ UNCHANGED <<history_vars, call_vars, frame2, buffer_vars, device_vars, label_vars,
                   frame, pass, viewport_vars, pc>>

\* GpuHandle::total_statistics()
TotalStatistics(buffer, map_ok) ==
    /\ Running
    /\ LET got == QuerySet_get(QueryType_PipelineStatistics, query_count(markers), buffer, map_ok)
           tot == total_statistics(stats_qs, got)
       IN /\ ops' = tot.ops
          /\ last' = Call("total_statistics",
                          IF stats_qs THEN got.ret ELSE Ok(<<>>),
                          tot.ret)
    /\ UNCHANGED <<history_vars, call_vars, frame2, buffer_vars, device_vars, label_vars,
                   frame, pass, viewport_vars, pc, panicked>>

\* Profiler::clear()
Clear ==
    /\ Running
    /\ markers' = clear(markers, resolved).markers
    /\ resolved' = clear(markers, resolved).resolved
    /\ passed' = <<>>
    /\ ops' = <<>>
    /\ resolved_sets' = {}
    /\ last' = Call("clear", Len(markers), Unit)
    /\ UNCHANGED <<stat_slots, query_open, call_vars, frame2, buffer_vars, device_vars, frame, pass,
                   viewport_vars, pc, panicked>>

\* ------------------------------------------------- Viewport and Frame
\* Viewport::resize(width, height)
Resize(size) ==
    /\ Running
    /\ resize_to' = <<size>>
    /\ ops' = <<>>
    /\ last' = Call("resize", size, Unit)
    /\ UNCHANGED <<history_vars, call_vars, frame2, buffer_vars, device_vars, label_vars,
                   frame, pass, sc_desc, window, pc, panicked>>

\* The windowing system changes the window's inner size.
WindowResized(size) ==
    /\ ~panicked
    /\ window # size
    /\ pc = "frame_new" => moved < MaxMoves
    /\ window' = size
    /\ moved' = IF pc = "frame_new" THEN moved + 1 ELSE moved
    /\ UNCHANGED <<history_vars, retries, frame2, buffer_vars, device_vars, label_vars, frame,
                   pass, sc_desc, resize_to, pc, ops, last, panicked>>

\* Viewport::get_current_frame (deprecated): resolve_resize, then the surface
\* texture or the SurfaceError, handed to the caller.
GetCurrentFrame(r) ==
    /\ Running
    /\ ~frame
    /\ sc_desc' = resolve_resize(sc_desc, resize_to).sc_desc
    /\ resize_to' = resolve_resize(sc_desc, resize_to).resize_to
    /\ ops' = resolve_resize(sc_desc, resize_to).ops \o <<Cmd("get_current_texture", r)>>
    /\ last' = Call("get_current_frame", <<>>,
                    IF r = "Ok" THEN Ok("SurfaceTexture") ELSE Err(r))
    /\ UNCHANGED <<history_vars, call_vars, frame2, buffer_vars, device_vars, label_vars,
                   frame, pass, window, pc, panicked>>

\* Viewport::begin_frame, up to its call of Frame::new: resolve_resize.
BeginFrame ==
    /\ Running
    /\ ~frame
    /\ sc_desc' = resolve_resize(sc_desc, resize_to).sc_desc
    /\ resize_to' = resolve_resize(sc_desc, resize_to).resize_to
    /\ ops' = resolve_resize(sc_desc, resize_to).ops
    /\ pc' = "frame_new"
    /\ retries' = 0
    /\ moved' = 0
    /\ last' = Call("begin_frame", <<>>, Ok("pending"))
    /\ UNCHANGED <<history_vars, frame2, buffer_vars, device_vars, label_vars, frame, pass,
                   window, panicked>>

\* Frame::new succeeds: the surface texture is acquired, the encoder created
\* and the "Frame start" section begun; begin_frame returns the Frame.
FrameNewOk ==
    /\ ~panicked /\ pc = "frame_new"
    /\ Len(markers) < MaxLabels
    /\ LET sec == begin_profiler_section(ts_qs, stats_qs, markers, overflow_checks,
                                         FrameStartLabel)
       IN /\ markers' = sec.markers
          /\ passed' = Append(passed, FrameStartLabel)
          /\ ops' = <<Cmd("get_current_texture", "Ok"),
                      Cmd("create_command_encoder", "frame")>> \o sec.ops
          /\ panicked' = sec.panic
    /\ frame' = TRUE
    /\ pc' = "idle"
    /\ stat_slots' = {}
    /\ retries' = 0
    /\ moved' = 0
    /\ last' = Call("begin_frame", <<>>, Ok("Frame"))
    /\ UNCHANGED <<resolved_sets, query_open, frame2, buffer_vars, device_vars, resolved, pass,
                   viewport_vars>>

\* A Frame::new that begins its section before it acquires the texture.
FrameNewErr_section_first(e) ==
    /\ ~panicked /\ pc = "frame_new"
    /\ Len(markers) < MaxLabels
    /\ markers' = begin_section(markers, FrameStartLabel)
    /\ passed' = Append(passed, FrameStartLabel)
    /\ ops' = <<Cmd("get_current_texture", e)>>
    /\ pc' = "idle"
    /\ retries' = 0
    /\ moved' = 0
    /\ last' = Call("begin_frame", <<>>, Err(e))
    /\ UNCHANGED <<history_vars, frame2, buffer_vars, device_vars, resolved, frame, pass,
                   viewport_vars, panicked>>

\* Frame::new fails with SurfaceError e.  On Outdated begin_frame resizes to
\* the window and calls itself again if that changed the size; every other
\* error, and Outdated at an unchanged size, is returned.
FrameNewErr(e) ==
    /\ ~panicked /\ pc = "frame_new"
    /\ IF e = "Outdated" /\ resize_using_window(sc_desc, window).changed
       THEN /\ retries < MaxRetries
            /\ sc_desc' = resize_using_window(sc_desc, window).sc_desc
            /\ ops' = <<Cmd("get_current_texture", e)>>
                        \o resize_using_window(sc_desc, window).ops
            /\ pc' = "frame_new"
            /\ retries' = retries + 1
            /\ moved' = moved
            /\ last' = Call("begin_frame", <<>>, Ok("pending"))
       ELSE /\ sc_desc' = sc_desc
            /\ ops' = <<Cmd("get_current_texture", e)>>
            /\ pc' = "idle"
            /\ retries' = 0
            /\ moved' = 0
            /\ last' = Call("begin_frame", <<>>, Err(e))
    /\ UNCHANGED <<history_vars, frame2, buffer_vars, device_vars, label_vars, frame,
                   pass, resize_to, window, panicked>>

\* impl Drop for Frame
FrameDrop ==
    /\ Running
    /\ frame
    /\ ~(pass.open /\ pass.on_frame)
    /\ frame' = FALSE
    /\ ops' = Frame_drop
    /\ markers' = clear(markers, resolved).markers
    /\ resolved' = clear(markers, resolved).resolved
    /\ passed' = <<>>
    /\ resolved_sets' = {}
    /\ stat_slots' = {}
    /\ last' = Call("drop_frame", Len(markers), Unit)
    /\ UNCHANGED <<query_open, call_vars, frame2, buffer_vars, device_vars, pass,
                   viewport_vars, pc, panicked>>

\* ----------------------------------------------------------- RenderPass
\* RenderPassBuilder::begin on the frame's encoder (on_frame) or on an encoder
\* of its own.
RenderPassBegin(label, on_frame) ==
    /\ Running
    /\ ~pass.open
    /\ on_frame => frame
    /\ ts_qs => Len(markers) < MaxLabels
    /\ LET sec == IF ts_qs
                  THEN begin_profiler_section(ts_qs, stats_qs, markers,
                                              overflow_checks, label)
                  ELSE [markers |-> markers, panic |-> FALSE, ops |-> <<>>]
           st == IF stats_qs
                 THEN begin_stats(ts_qs, stats_qs, sec.markers, overflow_checks)
                 ELSE [panic |-> FALSE, ops |-> <<>>]
       IN /\ markers' = sec.markers
          /\ passed' = IF ts_qs THEN Append(passed, label) ELSE passed
          /\ ops' = sec.ops \o <<Cmd("begin_render_pass", label)>> \o st.ops
          /\ panicked' = (sec.panic \/ st.panic)
          /\ pass' = IF sec.panic \/ st.panic THEN pass
                     ELSE [open |-> TRUE, pipeline_statistics |-> stats_qs,
                           on_frame |-> on_frame]
          /\ stat_slots' = IF frame THEN stat_slots \cup StatisticsBegunAt(st.ops)
                           ELSE stat_slots
          /\ query_open' = QueryOpenAfter(query_open, st.ops)
    /\ last' = Call("begin_render_pass", label, Unit)
    /\ UNCHANGED <<resolved_sets, call_vars, frame2, buffer_vars, device_vars, resolved, frame,
                   viewport_vars, pc>>

\* From<wgpu::RenderPass> for RenderPass
RenderPassFrom(on_frame) ==
    /\ Running
    /\ ~pass.open
    /\ on_frame => frame
    /\ pass' = [open |-> TRUE, pipeline_statistics |-> FALSE, on_frame |-> on_frame]
    /\ ops' = <<>>
    /\ last' = Call("render_pass_from", <<>>, Unit)
    /\ UNCHANGED <<history_vars, call_vars, frame2, buffer_vars, device_vars, label_vars,
                   frame, viewport_vars, pc, panicked>>

\* A drop that ends a statistics query whatever the pass began.
RenderPass_drop_always_ends(p) == <<Cmd("end_pipeline_statistics_query", 0)>>

\* impl Drop for RenderPass: the commands recorded into the pass p.
RenderPass_drop(p) ==
    IF p.pipeline_statistics THEN <<Cmd("end_pipeline_statistics_query", 0)>> ELSE <<>>

\* impl Drop for RenderPass
RenderPassDrop ==
    /\ Running
    /\ pass.open
    /\ ops' = RenderPass_drop(pass)
    /\ query_open' = QueryOpenAfter(query_open, RenderPass_drop(pass))
    /\ pass' = NoPass
    /\ last' = Call("drop_render_pass", <<>>, Unit)
    /\ UNCHANGED <<resolved_sets, stat_slots, call_vars, frame2, buffer_vars, device_vars,
                   label_vars, frame, viewport_vars, pc, panicked>>

\* ------------------------------------------------------- GpuProgram::run
\* The winit events other than the two the closure gives an arm of their own
\* that does something to the Viewport.
OtherEvents == {"CloseRequested", "RedrawEventsCleared", "MainEventsCleared"}

\* A call of the user's event handler with the agpu Event `event`.
event_handler(event, arg) == Cmd("event_handler", [event |-> event, arg |-> arg])

\* Viewport::begin_frame as one call, for a window whose size stays `win`:
\* r1 is what the first Frame::new finds in get_current_texture and r2 what
\* the call begin_frame makes to itself finds.  `ret` is "Frame" or the error.
begin_frame(conf, queued, win, r1, r2) ==
    LET rr == resolve_resize(conf, queued)
        ruw == resize_using_window(rr.sc_desc, win)
    IN IF r1 = "Outdated" /\ ruw.changed
       THEN [sc_desc |-> ruw.sc_desc,
             resize_to |-> rr.resize_to,
             ops |-> rr.ops \o <<Cmd("get_current_texture", r1)>> \o ruw.ops
                     \o <<Cmd("get_current_texture", r2)>>,
             ret |-> r2]
       ELSE [sc_desc |-> rr.sc_desc,
             resize_to |-> rr.resize_to,
             ops |-> rr.ops \o <<Cmd("get_current_texture", r1)>>,
             ret |-> r1]

\* An end of the closure that forwards every event, RedrawRequested too.
forward_every_event(event) == <<event_handler("Winit", event)>>

\* The end of the closure in run: the RedrawRequested arm returns early,
\* every other event is wrapped in Event::Winit and handed to the handler.
forward(event) ==
    IF event = "RedrawRequested" THEN <<>> ELSE <<event_handler("Winit", event)>>

\* run's closure for winit's RedrawRequested.  The handler may queue a resize
\* (`cb`, <<>> if it does not) while it handles Event::Winit(RedrawRequested);
\* it drops the Frame it is given before it returns.
RunRedrawRequested(r1, r2, cb) ==
    /\ Running
    /\ ~frame
    /\ ~pass.open
    /\ Len(markers) < MaxLabels
    /\ LET resized_to == resize_to
           bf == begin_frame(sc_desc, IF cb # <<>> THEN cb ELSE resize_to, window, r1, r2)
           sec == begin_profiler_section(ts_qs, stats_qs, markers, overflow_checks,
                                         FrameStartLabel)
       IN /\ sc_desc' = bf.sc_desc
          /\ resize_to' = bf.resize_to
          /\ ops' = (IF resized_to # <<>>
                     THEN <<event_handler("Resize", resized_to[1])>> ELSE <<>>)
                    \o <<event_handler("Winit", "RedrawRequested")>>
                    \o bf.ops
                    \o (IF bf.ret = "Ok"
                        THEN <<Cmd("create_command_encoder", "frame")>> \o sec.ops
                             \o <<event_handler("RedrawFrame", resized_to)>>
                             \o Frame_drop
                        ELSE <<>>)
                    \o forward("RedrawRequested")
          /\ markers' = IF bf.ret = "Ok" THEN clear(sec.markers, resolved).markers
                        ELSE markers
          /\ resolved' = IF bf.ret = "Ok" THEN clear(sec.markers, resolved).resolved
                         ELSE resolved
          /\ passed' = IF bf.ret = "Ok" THEN <<>> ELSE passed
          /\ resolved_sets' = IF bf.ret = "Ok" THEN {} ELSE resolved_sets
          /\ stat_slots' = IF bf.ret = "Ok" THEN {} ELSE stat_slots
          /\ last' = Call("run", [event |-> "RedrawRequested", pending |-> resized_to],
                          IF bf.ret = "Ok" THEN Ok("Frame") ELSE Err(bf.ret))
    /\ UNCHANGED <<query_open, call_vars, frame2, buffer_vars, device_vars, frame, pass,
                   window, pc, panicked>>

\* run's closure for winit's WindowEvent::Resized(size): the resize is queued,
\* the on_resize handler called if one is set, and the event forwarded.
RunResized(size, on_resize) ==
    /\ Running
    /\ resize_to' = <<size>>
    /\ ops' = (IF on_resize THEN <<Cmd("on_resize", size)>> ELSE <<>>)
              \o forward("Resized")
    /\ last' = Call("run", [event |-> "Resized", pending |-> resize_to], Unit)
    /\ UNCHANGED <<history_vars, call_vars, frame2, buffer_vars, device_vars, label_vars,
                   frame, pass, sc_desc, window, pc, panicked>>

\* run's closure for every other winit event: CloseRequested sets the control
\* flow to Exit, RedrawEventsCleared requests a redraw when the frame limiter
\* says so (should_draw), and the event is forwarded.
RunOther(event, should_draw) ==
    /\ Running
    /\ ops' = (IF event = "CloseRequested" THEN <<Cmd("control_flow", "Exit")>>
               ELSE IF event = "RedrawEventsCleared" /\ should_draw
               THEN <<Cmd("request_redraw", "window")>>
               ELSE <<>>)
              \o forward(event)
    /\ last' = Call("run", [event |-> event, pending |-> resize_to], Unit)
    /\ UNCHANGED <<history_vars, call_vars, frame2, buffer_vars, device_vars, label_vars,
                   frame, pass, viewport_vars, pc, panicked>>

\* The event loop of GpuProgram::run, and the window resized meanwhile.
NextRun ==
    \/ \E size \in Sizes : WindowResized(size)
    \/ \E r1, r2 \in SurfaceErrors \cup {"Ok"}, cb \in {<<>>} \cup {<<s>> : s \in Sizes} :
            RunRedrawRequested(r1, r2, cb)
    \/ \E size \in Sizes, on_resize \in BOOLEAN : RunResized(size, on_resize)
    \/ \E event \in OtherEvents, should_draw \in BOOLEAN : RunOther(event, should_draw)

\* ------------------------------------------- a second Frame on the same Gpu
\* The query slots at which the commands `o` write a timestamp.
TimestampsWrittenAt(o) ==
    {o[i].arg : i \in {j \in 1..Len(o) : o[j].cmd = "write_timestamp"}}

\* begin_frame of a second Viewport of the same Gpu returns a Frame:
\* Frame::new creates that Frame's encoder and begins "Frame start" in the
\* one Profiler the Gpu has.
Frame2New ==
    /\ Running
    /\ ~frame2.alive
    /\ Len(markers) < MaxLabels
    /\ LET sec == begin_profiler_section(ts_qs, stats_qs, markers, overflow_checks,
                                         FrameStartLabel)
       IN /\ markers' = sec.markers
          /\ passed' = Append(passed, FrameStartLabel)
          /\ ops' = <<Cmd("get_current_texture", "Ok"),
                      Cmd("create_command_encoder", "frame2")>> \o sec.ops
          /\ panicked' = sec.panic
          /\ frame2' = [alive |-> TRUE, written |-> TimestampsWrittenAt(sec.ops)]
    /\ last' = Call("frame2_new", <<>>, Ok("Frame"))
    /\ UNCHANGED <<history_vars, call_vars, buffer_vars, device_vars, resolved, frame, pass,
                   viewport_vars, pc>>

\* A render pass begun by RenderPassBuilder::begin on the second Frame's
\* encoder and dropped at the end of its scope.
Frame2RenderPass(label) ==
    /\ Running
    /\ frame2.alive
    /\ ts_qs => Len(markers) < MaxLabels
    /\ LET sec == IF ts_qs
                  THEN begin_profiler_section(ts_qs, stats_qs, markers,
                                              overflow_checks, label)
                  ELSE [markers |-> markers, panic |-> FALSE, ops |-> <<>>]
           st == IF stats_qs
                 THEN begin_stats(ts_qs, stats_qs, sec.markers, overflow_checks)
                 ELSE [panic |-> FALSE, ops |-> <<>>]
       IN /\ markers' = sec.markers
          /\ passed' = IF ts_qs THEN Append(passed, label) ELSE passed
          /\ ops' = sec.ops \o <<Cmd("begin_render_pass", label)>> \o st.ops
                    \o (IF sec.panic \/ st.panic THEN <<>>
                        ELSE RenderPass_drop([NoPass EXCEPT !.pipeline_statistics = stats_qs]))
          /\ panicked' = (sec.panic \/ st.panic)
          /\ frame2' = [frame2 EXCEPT !.written = @ \cup TimestampsWrittenAt(sec.ops)]
    /\ last' = Call("frame2_render_pass", label, Unit)
    /\ UNCHANGED <<history_vars, call_vars, buffer_vars, device_vars, resolved, frame, pass,
                   viewport_vars, pc>>

\* The second Frame is dropped: its encoder is submitted, the frame presented
\* and the Gpu's Profiler cleared.
Frame2Drop ==
    /\ Running
    /\ frame2.alive
    /\ frame2' = NoFrame
    /\ ops' = CommandEncoder_drop("frame2")
              \o <<Cmd("present", "frame2"), Cmd("clear", "profiler")>>
    /\ markers' = clear(markers, resolved).markers
    /\ resolved' = clear(markers, resolved).resolved
    /\ passed' = <<>>
    /\ resolved_sets' = {}
    /\ last' = Call("drop_frame2", Len(markers), Unit)
    /\ UNCHANGED <<stat_slots, query_open, call_vars, buffer_vars, device_vars, frame, pass,
                   viewport_vars, pc, panicked>>

\* Two Viewports of one Gpu, each beginning and dropping its Frames.
NextTwoFrames ==
    \/ BeginFrame
    \/ FrameNewOk
    \/ FrameDrop
    \/ Frame2New
    \/ \E label \in PassLabels : Frame2RenderPass(label)
    \/ Frame2Drop

\* ---------------------------------------------------------- VertexLayout
\* <S as VertexLayout>::vertex_buffer_layout::<L>() for a struct S with the
\* given fields that derives VertexLayout or VertexLayoutInstance.
VertexBufferLayout(derive, fields, L) ==
    /\ Running
    /\ ops' = <<>>
    /\ last' = Call("vertex_buffer_layout",
                    [derive |-> derive, fields |-> fields, L |-> L],
                    Ok(IF derive = "VertexLayoutInstance"
                       THEN vertex_layout_instance(fields, L)
                       ELSE vertex_layout(fields, L)))
    /\ UNCHANGED <<history_vars, call_vars, frame2, buffer_vars, device_vars, label_vars,
                   frame, pass, viewport_vars, pc, panicked>>

\* The layouts derived for vertex structs.
NextVertexLayout ==
    \E derive \in {"VertexLayout", "VertexLayoutInstance"},
       fields \in Structs, L \in Locations :
        VertexBufferLayout(derive, fields, L)

\* ------------------------------------------------------------- TexFormat
\* TexFormat::linear(self)
TexFormatLinear(format) ==
    /\ Running
    /\ ops' = <<>>
    /\ last' = Call("linear", format, Ok(linear(format)))
    /\ UNCHANGED <<history_vars, call_vars, frame2, buffer_vars, device_vars, label_vars,
                   frame, pass, viewport_vars, pc, panicked>>

\* TexFormat::srgb(self)
TexFormatSrgb(format) ==
    /\ Running
    /\ ops' = <<>>
    /\ last' = Call("srgb", format, Ok(srgb(format)))
    /\ UNCHANGED <<history_vars, call_vars, frame2, buffer_vars, device_vars, label_vars,
                   frame, pass, viewport_vars, pc, panicked>>

\* The conversions of texture formats.
NextTexFormat ==
    \/ \E format \in TextureFormats : TexFormatLinear(format)
    \/ \E format \in TextureFormats : TexFormatSrgb(format)

\* --------------------------------------------------------------- Buffer
\* Buffer::write(data) with data of len elements of elem bytes.
BufferWrite(elem, len, survives) ==
    /\ Running
    /\ cast_slice_len(elem, len) <= MaxBufferSize
    /\ LET w == write(buffer_size, usages, cast_slice_len(elem, len), survives)
       IN /\ buffer_size' = w.size
          /\ usages' = w.usages
          /\ panicked' = w.panic
          /\ ops' = w.ops
    /\ last' = Call("write", [offset |-> 0, len |-> cast_slice_len(elem, len)], Unit)
    /\ UNCHANGED <<history_vars, call_vars, frame2, device_vars, label_vars, frame, pass,
                   viewport_vars, pc>>

\* Buffer::write_at(offset, data)
BufferWriteAt(offset, elem, len, survives) ==
    /\ Running
    /\ offset + cast_slice_len(elem, len) <= MaxBufferSize
    /\ LET w == write_at(buffer_size, usages, offset, cast_slice_len(elem, len), survives)
       IN /\ buffer_size' = w.size
          /\ usages' = w.usages
          /\ panicked' = w.panic
          /\ ops' = w.ops
    /\ last' = Call("write_at",
                    [offset |-> offset, len |-> cast_slice_len(elem, len)], Unit)
    /\ UNCHANGED <<history_vars, call_vars, frame2, device_vars, label_vars, frame, pass,
                   viewport_vars, pc>>

\* Buffer::write_index(index, data)
BufferWriteIndex(index, elem, len, survives) ==
    /\ Running
    /\ index * elem + cast_slice_len(elem, len) <= MaxBufferSize
    /\ LET w == write_index(buffer_size, usages, index, elem, cast_slice_len(elem, len),
                            survives)
       IN /\ buffer_size' = w.size
          /\ usages' = w.usages
          /\ panicked' = w.panic
          /\ ops' = w.ops
    /\ last' = Call("write_index",
                    [offset |-> index * elem, len |-> cast_slice_len(elem, len)], Unit)
    /\ UNCHANGED <<history_vars, call_vars, frame2, device_vars, label_vars, frame, pass,
                   viewport_vars, pc>>

\* Buffer::resize(size)
BufferResize(new_size, survives) ==
    /\ Running
    /\ new_size <= MaxBufferSize
    /\ LET r == Buffer_resize_impl(buffer_size, usages, new_size, TRUE, survives)
       IN /\ buffer_size' = r.size
          /\ usages' = r.usages
          /\ panicked' = r.panic
          /\ ops' = r.ops
    /\ last' = Call("buffer_resize", new_size, Unit)
    /\ UNCHANGED <<history_vars, call_vars, frame2, device_vars, label_vars, frame, pass,
                   viewport_vars, pc>>

\* A Buffer written to and resized.
NextBuffer ==
    \/ \E elem \in ElemSizes, len \in DataLens, survives \in BOOLEAN :
            BufferWrite(elem, len, survives)
    \/ \E offset \in Offsets, elem \in ElemSizes, len \in DataLens,
          survives \in BOOLEAN : BufferWriteAt(offset, elem, len, survives)
    \/ \E index \in Indices, elem \in ElemSizes, len \in DataLens,
          survives \in BOOLEAN : BufferWriteIndex(index, elem, len, survives)
    \/ \E new_size \in BufferSizes, survives \in BOOLEAN :
            BufferResize(new_size, survives)

\* The Profiler's own methods.
NextProfiler ==
    \/ \E label \in Labels : BeginSection(label)
    \/ \E label \in PassLabels : Timestamp(label)
    \/ BeginStats
    \/ EndStats
    \/ Resolve
    \/ QueryCount
    \/ \E buffer \in TickBuffers(MaxLabels), map_ok \in BOOLEAN :
            TimestampReport(buffer, map_ok)
    \/ \E buffer \in StatBuffers(5 * MaxLabels), map_ok \in BOOLEAN :
            TotalStatistics(buffer, map_ok)
    \/ Clear

\* The frame lifecycle: what a render loop does with a Viewport, its Frames
\* and their RenderPasses, and the profiler calls open to it meanwhile.
NextFrame ==
    \/ \E size \in Sizes : WindowResized(size)
    \/ BeginFrame
    \/ FrameNewOk
    \/ \E e \in SurfaceErrors : FrameNewErr(e)
    \/ FrameDrop
    \/ \E label \in PassLabels, on_frame \in BOOLEAN : RenderPassBegin(label, on_frame)
    \/ \E on_frame \in BOOLEAN : RenderPassFrom(on_frame)
    \/ RenderPassDrop
    \/ Resolve
    \/ \E buffer \in TickBuffers(MaxLabels), map_ok \in BOOLEAN :
            TimestampReport(buffer, map_ok)
    \/ Clear

\* The Viewport: resizes queued by the application, the window resized by
\* the windowing system, and frames begun and dropped.
NextViewport ==
    \/ \E size \in Sizes : Resize(size)
    \/ \E size \in Sizes : WindowResized(size)
    \/ \E r \in SurfaceErrors \cup {"Ok"} : GetCurrentFrame(r)
    \/ BeginFrame
    \/ FrameNewOk
    \/ \E e \in SurfaceErrors : FrameNewErr(e)
    \/ FrameDrop

Next ==
    \/ NextProfiler
    \/ NextFrame
    \/ NextViewport
    \/ NextVertexLayout
    \/ NextTexFormat
    \/ NextBuffer
    \/ NextRun
    \/ NextTwoFrames

Spec == Init /\ [][Next]_vars

\* The Profiler driven through its methods alone.
SpecProfiler == Init /\ [][NextProfiler]_vars

\* The frame lifecycle; it does not read the tick period, which is fixed here.
InitFrame == Init /\ timestamp_period = 1000000
SpecFrame == InitFrame /\ [][NextFrame]_vars

\* The Viewport's resizes and frames.
SpecViewport == InitFrame /\ [][NextViewport]_vars

\* The next step of a begin_frame that is running: Frame::new returns, and
\* the match on its result runs.
FrameNew == FrameNewOk \/ \E e \in SurfaceErrors : FrameNewErr(e)

\* GpuProgram::run dispatching winit's events.
SpecRun == InitFrame /\ [][NextRun]_vars

\* Two Frames alive on one Gpu.
SpecTwoFrames == InitFrame /\ [][NextTwoFrames]_vars

\* One device: timestamps, statistics, overflow checks, a period of 1 ms.
InitOneDevice ==
    Init /\ ts_qs /\ stats_qs /\ overflow_checks /\ timestamp_period = 1000000

\* The derive macros' layouts; they read nothing of the device.
SpecVertexLayout == InitOneDevice /\ [][NextVertexLayout]_vars

\* A Buffer and the writes to it.
SpecBuffer == InitOneDevice /\ [][NextBuffer]_vars

\* The texture format conversions, which read nothing of the device either.
SpecTexFormat == InitOneDevice /\ [][NextTexFormat]_vars

\* ================================================================ claims
\* Does the effect list `o` hold a command named c?
Has(o, c) == \E i \in 1..Len(o) : o[i].cmd = c

\* C1: the label sequence is the labels passed to begin_section since
\* construction or the last clear(), in call order; whenever it is non-empty
\* query_index() is len(labels) - 1, and a timestamp() write goes to that slot
\* (slot 1 after begin_section("A"), begin_section("B")).
C1_LabelsInCallOrder ==
    /\ markers = passed
    /\ markers # <<>> =>
          query_index(markers, overflow_checks) =
              [panic |-> FALSE, idx |-> Len(passed) - 1]
    /\ (last.op = "timestamp" /\ ts_qs /\ passed # <<>>) =>
          /\ ~panicked
          /\ ops = <<Cmd("write_timestamp", Len(passed) - 1)>>
    /\ (last.op = "timestamp" /\ ts_qs /\ passed = <<"A", "B">>) =>
          /\ markers = <<"A", "B">>
          /\ ops = <<Cmd("write_timestamp", 1)>>

C1_Witness ==
    /\ passed = <<"A", "B">>
    /\ last.op = "timestamp"
    /\ ts_qs
    /\ ops = <<Cmd("write_timestamp", 1)>>

\* C2: after clear() the label sequence is empty, query_count() is 0 and the
\* resolved flag is false, whatever was there before; the first begin_section
\* after it, followed by timestamp(), writes query slot 0.
C2_ClearResets ==
    /\ last.op = "clear" =>
          /\ markers = <<>>
          /\ query_count(markers) = 0
          /\ resolved = FALSE
    /\ (last.op = "timestamp" /\ ts_qs /\ Len(passed) = 1) =>
          /\ ~panicked
          /\ ops = <<Cmd("write_timestamp", 0)>>

C2_Witness ==
    /\ last.op = "clear"
    /\ last.arg >= 2
    /\ markers = <<>>

\* C3: on a profiler with neither QuerySet no method panics, none touches a
\* QuerySet, and the results are empty.
C3_NoCapabilityNoPanic ==
    (~ts_qs /\ ~stats_qs) =>
        /\ ~panicked
        /\ ops = <<>>
        /\ last.op = "timestamp_report" => last.ret = Ok(<<>>)

\* C4: timestamp() records nothing without the timestamp set, begin_stats()
\* and end_stats() record nothing without the statistics set, and
\* timestamp_report() is empty without the timestamp set; each does the same
\* whether or not the other set exists, and none changes the label sequence.
C4_OwnQuerySetOnly ==
    [][/\ (last'.op = "timestamp" /\ ~ts_qs) => (ops' = <<>> /\ ~panicked')
       /\ (last'.op \in {"begin_stats", "end_stats"} /\ ~stats_qs) =>
              (ops' = <<>> /\ ~panicked')
       /\ (last'.op = "timestamp_report" /\ ~ts_qs) =>
              (ops' = <<>> /\ last'.ret = Ok(<<>>) /\ ~panicked')
       /\ last'.op = "timestamp" =>
              ops' = timestamp(ts_qs, ~stats_qs, markers, overflow_checks).ops
       /\ last'.op = "begin_stats" =>
              ops' = begin_stats(~ts_qs, stats_qs, markers, overflow_checks).ops
       /\ last'.op = "end_stats" => ops' = end_stats(~ts_qs, stats_qs)
       /\ last'.op \in {"timestamp", "begin_stats", "end_stats", "timestamp_report"} =>
              markers' = markers
      ]_vars

C4_Witness ==
    /\ last.op = "timestamp"
    /\ ~ts_qs
    /\ stats_qs
    /\ markers # <<>>
    /\ ops = <<>>

\* A timestamp_report that had a timestamp set, got its words and returned.
Reported ==
    /\ last.op = "timestamp_report"
    /\ ts_qs
    /\ ~panicked
    /\ last.arg.tag = "Ok"
    /\ Len(markers) >= 1

\* C5: with a timestamp set, n >= 1 labels and a successful get, the report
\* has n - 1 entries; entry i (1 <= i < n) carries label i, the label at the
\* end of its interval, and a duration made from timestamps[i] -
\* timestamps[i-1].
C5_ReportPairsEndLabel ==
    Reported =>
        /\ Len(last.ret.val) = Len(markers) - 1
        /\ \A k \in 1..(Len(markers) - 1) :
              LET entry == last.ret.val[k]
                  val == last.arg.val
              IN /\ entry.label = markers[k + 1]
                 /\ entry.duration.wrap = (val[k + 1] < val[k])
                 /\ val[k + 1] >= val[k] =>
                       entry.duration.m =
                           DecMul(Dec(val[k + 1] - val[k]), Dec(timestamp_period)).m
                 /\ val[k + 1] < val[k] =>
                       /\ entry.duration.mag = val[k] - val[k + 1]
                       /\ entry.duration.m = Dec(timestamp_period).m

C5_Witness ==
    /\ Reported
    /\ markers = <<"Frame start", "A", "B">>
    /\ last.arg.val = <<1000, 1500, 2700>>
    /\ Len(last.ret.val) = 2
    /\ last.ret.val[1].label = "A"
    /\ last.ret.val[2].label = "B"

\* C6: every reported duration is (timestamps[i] - timestamps[i-1]) *
\* timestamp_period / 1,000,000; for ticks [1000, 1500, 2700] and a period of
\* 1,000,000 ns per tick the durations are 500 and 1200.
C6_DurationInMillis ==
    Reported =>
        /\ \A k \in 1..(Len(markers) - 1) :
              LET entry == last.ret.val[k]
                  val == last.arg.val
              IN val[k + 1] >= val[k] =>
                    [m |-> entry.duration.m, e |-> entry.duration.e] =
                        DivMillion(DecMul(Dec(val[k + 1] - val[k]),
                                          Dec(timestamp_period)))
        /\ (last.arg.val = <<1000, 1500, 2700>> /\ timestamp_period = 1000000) =>
              /\ [m |-> last.ret.val[1].duration.m,
                  e |-> last.ret.val[1].duration.e] = Dec(500)
              /\ [m |-> last.ret.val[2].duration.m,
                  e |-> last.ret.val[2].duration.e] = Dec(1200)

\* C7: QuerySet::get(device, 0) returns an empty sequence and makes no driver
\* call (no mapping, no poll, no unmap), for a timestamp and for a statistics
\* set.
C7_GetZeroTouchesNothing ==
    /\ (last.op = "timestamp_report" /\ ts_qs /\ markers = <<>>) =>
          (ops = <<>> /\ last.arg = Ok(<<>>))
    /\ (last.op = "total_statistics" /\ stats_qs /\ markers = <<>>) =>
          (ops = <<>> /\ last.arg = Ok(<<>>))
    /\ \A ty \in {QueryType_Timestamp, QueryType_PipelineStatistics},
          map_ok \in BOOLEAN :
          QuerySet_get(ty, 0, <<>>, map_ok) = [ops |-> <<>>, ret |-> Ok(<<>>)]

C7_Witness ==
    /\ last.op = "total_statistics"
    /\ stats_qs
    /\ markers = <<>>
    /\ ops = <<>>
    /\ last.ret.tag = "Ok"

\* C8: when mapping the readback buffer fails, QuerySet::get returns
\* Err(BufferAsyncError) and timestamp_report returns an empty report, without
\* panicking and without changing the label sequence.
C8_MapFailureSwallowed ==
    [][(last'.op = "timestamp_report"
            /\ \E i \in 1..Len(ops') : ops'[i].cmd = "block_on" /\ ops'[i].arg = "Err") =>
          /\ last'.arg.tag = "Err"
          /\ last'.arg.val = "BufferAsyncError"
          /\ last'.ret = Ok(<<>>)
          /\ ~panicked'
          /\ markers' = markers
      ]_vars

C8_Witness ==
    /\ last.op = "timestamp_report"
    /\ last.arg.tag = "Err"
    /\ Len(markers) >= 2
    /\ Has(ops, "block_on")
    /\ last.ret = Ok(<<>>)
    /\ ~panicked

\* C9: dropping a Frame submits the frame's encoder, then presents the
\* surface texture, then clears the profiler's labels, each exactly once; so
\* after every completed frame the label count is 0.
C9_FrameDropOrder ==
    last.op = "drop_frame" =>
        /\ ops = <<Cmd("finish", "frame"), Cmd("submit", "frame"),
                   Cmd("present", "frame"), Cmd("clear", "profiler")>>
        /\ markers = <<>>
        /\ query_count(markers) = 0
        /\ ~frame

C9_Witness ==
    /\ last.op = "drop_frame"
    /\ last.arg >= 2
    /\ markers = <<>>
    /\ ops[Len(ops)].cmd = "clear"

\* The write_timestamp commands among the effects o.
TimestampWrites(o) == SelectSeq(o, LAMBDA c : c.cmd = "write_timestamp")

\* C10: a begin_frame that returns a Frame has pushed exactly one label,
\* "Frame start", and written a timestamp at that label's index (0 when the
\* labels were empty) if there is a timestamp set; a Frame::new that fails
\* returns the SurfaceError and pushes nothing, so failed and retried attempts
\* leave the label sequence unchanged.
C10_OneFrameStartPerFrame ==
    [][/\ (pc = "frame_new" /\ last'.op = "begin_frame" /\ last'.ret.tag = "Ok"
             /\ last'.ret.val = "Frame") =>
            /\ markers' = Append(markers, FrameStartLabel)
            /\ frame'
            /\ TimestampWrites(ops') =
                  IF ts_qs THEN <<Cmd("write_timestamp", Len(markers))>> ELSE <<>>
       /\ (pc = "frame_new" /\ last'.op = "begin_frame" /\ last'.ret.tag = "Err") =>
            /\ last'.ret.val \in SurfaceErrors
            /\ markers' = markers
            /\ ~frame'
            /\ TimestampWrites(ops') = <<>>
       /\ (pc' = "frame_new") =>
            /\ markers' = markers
            /\ TimestampWrites(ops') = <<>>
      ]_vars

C10_Witness ==
    /\ last.op = "begin_frame"
    /\ last.ret.tag = "Ok"
    /\ last.ret.val = "Frame"
    /\ ts_qs
    /\ markers = <<FrameStartLabel>>
    /\ TimestampWrites(ops) = <<Cmd("write_timestamp", 0)>>

\* C11: in every reachable state the label count is at most MAX_QUERIES, the
\* capacity of the query sets.
C11_LabelsWithinCapacity == Len(markers) <= MAX_QUERIES

\* The number of statistic types the bitmask `bits` selects.
StatisticsSelected(bits) == Cardinality({i \in 0..4 : (bits \div (2 ^ i)) % 2 = 1})

\* C12: query_size() depends on the kind tag only and is the same at every
\* use over the set's lifetime: 1 for a timestamp set, the number of bits set
\* in the bitmask for a pipeline-statistics set, 5 for the set new_stats
\* builds.
C12_QuerySizeByKind ==
    /\ query_size(QueryType_Timestamp) = 1
    /\ query_size(QueryType_PipelineStatistics) = 5
    /\ \A bits \in 0..AllStatisticsBits :
          /\ query_size([kind |-> "PipelineStatistics", bits |-> bits]) =
                 StatisticsSelected(bits)
          /\ query_size([kind |-> "Timestamp", bits |-> bits]) = 1
    /\ (last.op = "timestamp_report" /\ ts_qs /\ markers # <<>>) =>
          ops[1] = Cmd("map_async", Len(markers))
    /\ (last.op = "total_statistics" /\ stats_qs /\ markers # <<>>) =>
          ops[1] = Cmd("map_async", 5 * Len(markers))
    /\ (last.op = "resolve" /\ stats_qs) =>
          ops = <<Cmd("resolve_query_set",
                      [query_set |-> "PipelineStatistics",
                       range |-> <<0, 5 * Len(markers)>>])>>

C12_Witness ==
    /\ last.op = "total_statistics"
    /\ stats_qs
    /\ Len(markers) = 2
    /\ ops[1] = Cmd("map_async", 10)
    /\ last.arg.tag = "Ok"
    /\ Len(last.arg.val) = 10

\* C13: for count > 0 and a successful mapping, QuerySet::get returns exactly
\* count * query_size words, equal in value and order to the first
\* count * query_size words of the readback buffer.
C13_GetReturnsBufferPrefix ==
    [][/\ \A buffer \in TickBuffers(MaxLabels) :
            (/\ last'.op = "timestamp_report" /\ ts_qs /\ markers # <<>>
             /\ TimestampReport(buffer, TRUE)) =>
                /\ last'.arg.tag = "Ok"
                /\ Len(last'.arg.val) = Len(markers)
                /\ \A i \in 1..Len(markers) : last'.arg.val[i] = buffer[i]
       /\ \A buffer \in StatBuffers(5 * MaxLabels) :
            (/\ last'.op = "total_statistics" /\ stats_qs /\ markers # <<>>
             /\ TotalStatistics(buffer, TRUE)) =>
                /\ last'.arg.tag = "Ok"
                /\ Len(last'.arg.val) = 5 * Len(markers)
                /\ \A i \in 1..(5 * Len(markers)) : last'.arg.val[i] = buffer[i]
      ]_vars

C13_Witness ==
    /\ last.op = "total_statistics"
    /\ stats_qs
    /\ Len(markers) = 2
    /\ last.arg = Ok(<<1, 2, 3, 4, 5, 6, 7, 8, 9, 10>>)

RECURSIVE MapState(_, _)
\* The state of the readback buffer after the driver calls o, begun in state
\* st: "unmapped", "pending" (map_async issued), "mapped", "viewed" (a view
\* of the mapped range is alive), "released" (mapped, the view dropped), or
\* "invalid" once a call came that the driver does not allow in that state.
MapState(o, st) ==
    IF o = <<>> THEN st
    ELSE LET c == Head(o).cmd
             nxt == CASE c = "map_async" ->
                            IF st = "unmapped" THEN "pending" ELSE "invalid"
                      [] c = "block_on" ->
                            IF st # "pending" THEN "invalid"
                            ELSE IF Head(o).arg = "Ok" THEN "mapped" ELSE "unmapped"
                      [] c = "get_mapped_range" ->
                            IF st = "mapped" THEN "viewed" ELSE "invalid"
                      [] c = "to_vec" ->
                            IF st = "viewed" THEN "viewed" ELSE "invalid"
                      [] c = "drop_view" ->
                            IF st = "viewed" THEN "released" ELSE "invalid"
                      [] c = "unmap" ->
                            IF st = "released" THEN "unmapped" ELSE "invalid"
                      [] OTHER -> st
         IN MapState(Tail(o), nxt)

\* The position in o of the first command named c, 0 if there is none.
Pos(o, c) == IF Has(o, c) THEN CHOOSE i \in 1..Len(o) :
                                   o[i].cmd = c /\ \A j \in 1..(i - 1) : o[j].cmd # c
             ELSE 0

\* C14: every operation that reads a QuerySet leaves the readback buffer
\* unmapped, so the next get can map it again: on success the words are
\* copied out while the view is alive, the view is dropped next and the
\* buffer unmapped last; when the mapping fails no view is made.
C14_BufferLeftUnmapped ==
    /\ MapState(ops, "unmapped") = "unmapped"
    /\ (last.op \in {"timestamp_report", "total_statistics"} /\ Has(ops, "map_async")) =>
          IF last.arg.tag = "Ok"
          THEN /\ 0 < Pos(ops, "get_mapped_range")
               /\ Pos(ops, "get_mapped_range") < Pos(ops, "to_vec")
               /\ Pos(ops, "to_vec") < Pos(ops, "drop_view")
               /\ Pos(ops, "drop_view") < Pos(ops, "unmap")
               /\ Pos(ops, "unmap") = Len(ops)
          ELSE /\ ~Has(ops, "get_mapped_range")
               /\ ~Has(ops, "to_vec")
               /\ ~Has(ops, "unmap")

\* A get of two timestamps that succeeded and ended with the unmap.
C14_Witness ==
    /\ last.op = "timestamp_report"
    /\ ts_qs
    /\ Len(markers) = 2
    /\ last.arg.tag = "Ok"
    /\ MapState(ops, "unmapped") = "unmapped"
    /\ Pos(ops, "unmap") = Len(ops)

\* What C15 says of resize(), of the step of begin_frame that resolves the
\* queue, and of the resize queue during the rest of begin_frame.
ResizeOnlyQueues ==
    /\ last'.op = "resize" =>
          /\ sc_desc' = sc_desc
          /\ resize_to' = <<last'.arg>>
          /\ ops' = <<>>
    /\ (pc = "idle" /\ pc' = "frame_new") =>
          /\ sc_desc' = IF resize_to # <<>> THEN resize_to[1] ELSE sc_desc
          /\ resize_to' = <<>>
    /\ pc = "frame_new" => (resize_to = <<>> /\ resize_to' = <<>>)

\* C15 as claimed: resize(w, h) only queues the request; the configured size
\* is unchanged until the next begin_frame, which applies the size queued
\* last before it acquires the frame and leaves nothing queued; a begin_frame
\* with nothing queued changes no size.
C15_ResizeAppliedOnlyFromQueue ==
    [][/\ ResizeOnlyQueues
       /\ (pc = "idle" /\ pc' = "idle") => sc_desc' = sc_desc
       /\ pc = "frame_new" => sc_desc' = sc_desc
      ]_vars

\* C15, amended: resize(w, h) only queues the request; the configured size
\* is unchanged until the next begin_frame (or get_current_frame), which
\* applies the size queued last before it acquires the frame and leaves
\* nothing queued; after that step a begin_frame changes the size only when
\* the surface is Outdated and the window's inner size differs from the
\* configured one, and then to the window's size.
C15_ResizeQueuedUntilBeginFrame ==
    [][/\ ResizeOnlyQueues
       /\ (pc = "idle" /\ pc' = "idle" /\ sc_desc' # sc_desc) =>
             /\ last'.op = "get_current_frame"
             /\ resize_to # <<>>
             /\ sc_desc' = resize_to[1]
             /\ resize_to' = <<>>
       /\ (pc = "idle" /\ pc' = "idle" /\ last'.op = "get_current_frame"
              /\ resize_to = <<>>) => sc_desc' = sc_desc
       /\ (pc = "frame_new" /\ sc_desc' # sc_desc) =>
             /\ ops'[1].cmd = "get_current_texture"
             /\ ops'[1].arg = "Outdated"
             /\ window # sc_desc
             /\ sc_desc' = window
      ]_vars

\* begin_frame has just applied a queued resize to 800 x 600.
C15_Witness ==
    /\ pc = "frame_new"
    /\ last.op = "begin_frame"
    /\ ops # <<>>
    /\ ops[1].cmd = "configure"
    /\ sc_desc = <<800, 600>>
    /\ resize_to = <<>>

\* The layout the last operation derived.
Derived == last.op = "vertex_buffer_layout"

C17_ArraysNormalizedTuplesInteger ==
    Derived =>
        \A i \in 1..Len(last.arg.fields) :
            LET ty == last.arg.fields[i]
                format == last.ret.val.attributes[i].format
            IN /\ (ty.shape = "array" /\ ty.elem \in {"u8", "u16"}) =>
                     format = VertexFormat("Unorm", 8 * ElemSize(ty.elem), ty.n)
               /\ (ty.shape = "array" /\ ty.elem \in {"i8", "i16"}) =>
                     format = VertexFormat("Snorm", 8 * ElemSize(ty.elem), ty.n)
               /\ (ty.shape = "tuple" /\ ty.elem \in {"u8", "u16"}) =>
                     format = VertexFormat("Uint", 8 * ElemSize(ty.elem), ty.n)
               /\ (ty.shape = "tuple" /\ ty.elem \in {"i8", "i16"}) =>
                     format = VertexFormat("Sint", 8 * ElemSize(ty.elem), ty.n)

\* C18: TexFormat::linear() returns the linear variant of the format: for
\* every texture format the result is not an sRGB format, and it is the
\* input itself when the input is already linear.
C18_LinearIsNeverSrgb ==
    last.op = "linear" =>
        /\ ~last.ret.val.srgb
        /\ last.ret.val.name = last.arg.name
        /\ ~last.arg.srgb => last.ret.val = last.arg

\* C19: write, write_at and write_index resize the buffer only when the
\* written range ends past the current size: once the write has returned,
\* size >= offset + byte length of the data; the buffer and its size are
\* unchanged when it was already large enough; and no write decreases size.
C19_WritesGrowOnlyWhenNeeded ==
    [][last'.op \in {"write", "write_at", "write_index"} =>
          LET end == last'.arg.offset + last'.arg.len
          IN /\ buffer_size' >= buffer_size
             /\ ~panicked' => buffer_size' >= end
             /\ buffer_size >= end =>
                   /\ buffer_size' = buffer_size
                   /\ usages' = usages
                   /\ ~panicked'
                   /\ ops' = write_impl(last'.arg.offset, last'.arg.len)
             /\ Has(ops', "create_buffer") <=> buffer_size < end
      ]_vars

\* A write_at that grew the buffer from 8 to 12 bytes and returned.
C19_Witness ==
    /\ last.op = "write_at"
    /\ last.arg = [offset |-> 8, len |-> 4]
    /\ ~panicked
    /\ Has(ops, "create_buffer")
    /\ buffer_size = 12

\* C20: on a profiler with a timestamp QuerySet, timestamp_report called
\* while there is no label returns an empty report without failing; whenever
\* it got the timestamps and returned, the report has max(0, len(labels) - 1)
\* entries.
C20_EmptyLabelsEmptyReport ==
    (last.op = "timestamp_report" /\ ts_qs) =>
        /\ markers = <<>> => (~panicked /\ last.ret = Ok(<<>>))
        /\ (~panicked /\ last.arg.tag = "Ok") =>
              Len(last.ret.val) = IF Len(markers) > 1 THEN Len(markers) - 1 ELSE 0

\* C21: whenever timestamp_report has read the timestamp QuerySet's readback
\* buffer (it mapped the buffer and copied the words out), a resolve of the
\* timestamp QuerySet has been recorded since the labels of this frame began:
\* some step of the frame lifecycle resolves the timestamps.
C21_TimestampsResolvedBeforeRead ==
    (last.op = "timestamp_report" /\ ts_qs /\ Has(ops, "get_mapped_range")) =>
        "Timestamp" \in resolved_sets

\* How many commands named c the effect list `o` holds.
Count(o, c) == Cardinality({i \in 1..Len(o) : o[i].cmd = c})

\* C22: a RenderPass returned by RenderPassBuilder::begin has issued one
\* begin_pipeline_statistics_query if the profiler has a statistics QuerySet
\* and none otherwise, always with no query open; a pass wrapped with From
\* issues none; dropping a pass issues one end_pipeline_statistics_query if
\* its query is open and none otherwise; so no query is open once the pass is
\* gone: begin and end are paired within one pass and never nested.
C22_StatisticsQueriesPaired ==
    [][/\ (~pass.open /\ pass'.open /\ last'.op = "begin_render_pass") =>
            /\ Count(ops', "begin_pipeline_statistics_query") =
                   (IF stats_qs THEN 1 ELSE 0)
            /\ Count(ops', "end_pipeline_statistics_query") = 0
            /\ ~query_open
            /\ query_open' = stats_qs
       /\ (~pass.open /\ pass'.open /\ last'.op = "render_pass_from") =>
            /\ ops' = <<>>
            /\ ~query_open'
       /\ (pass.open /\ ~pass'.open) =>
            /\ last'.op = "drop_render_pass"
            /\ Count(ops', "end_pipeline_statistics_query") =
                   (IF query_open THEN 1 ELSE 0)
            /\ Count(ops', "begin_pipeline_statistics_query") = 0
       /\ ~pass'.open => ~query_open'
      ]_vars

\* A pass that began its statistics query has been dropped and ended it.
C22_Witness ==
    /\ last.op = "drop_render_pass"
    /\ stats_qs
    /\ ops = <<Cmd("end_pipeline_statistics_query", 0)>>
    /\ ~query_open

\* The calls of the user's event handler among the effects `o`, in order.
HandlerCalls(o) == SelectSeq(o, LAMBDA c : c.cmd = "event_handler")

\* C23: for one RedrawRequested the handler of GpuProgram::run receives
\* Event::Resize(size) if and only if a resize was pending, before anything
\* else and so before the surface is configured to it, then
\* Event::Winit(RedrawRequested), then, if and only if begin_frame succeeded,
\* Event::RedrawFrame with resized_to equal to that pending size, and nothing
\* more; every other winit event reaches the handler exactly once.
C23_RedrawEventOrder ==
    last.op = "run" =>
        LET calls == HandlerCalls(ops)
            names == [i \in 1..Len(calls) |-> calls[i].arg.event]
            pending == last.arg.pending
            n == IF pending # <<>> THEN 1 ELSE 0
        IN IF last.arg.event = "RedrawRequested"
           THEN /\ Len(calls) = n + 1 + (IF last.ret.tag = "Ok" THEN 1 ELSE 0)
                /\ pending # <<>> =>
                      /\ names[1] = "Resize"
                      /\ calls[1].arg.arg = pending[1]
                      /\ ops[1].cmd = "event_handler"
                      /\ Pos(ops, "configure") # 1
                /\ names[n + 1] = "Winit"
                /\ calls[n + 1].arg.arg = "RedrawRequested"
                /\ last.ret.tag = "Ok" =>
                      /\ names[n + 2] = "RedrawFrame"
                      /\ calls[n + 2].arg.arg = pending
                      /\ Pos(ops, "get_current_texture") > n + 1
           ELSE /\ Len(calls) = 1
                /\ names[1] = "Winit"
                /\ calls[1].arg.arg = last.arg.event

\* A RedrawRequested with a resize pending, for which begin_frame succeeded
\* at its second attempt: the handler was called three times.
C23_Witness ==
    /\ last.op = "run"
    /\ last.arg.event = "RedrawRequested"
    /\ last.arg.pending # <<>>
    /\ last.ret.tag = "Ok"
    /\ Len(HandlerCalls(ops)) = 3
    /\ Count(ops, "get_current_texture") = 2

\* What C24 says of one step of a begin_frame that is running: it returns or
\* it calls itself, which it does only when Frame::new found the surface
\* Outdated and the window's size differs from the configured size, which it
\* adopts; it returns Outdated when the sizes agree, and every other error as
\* it found it, leaving the configuration alone.
BeginFrameStep ==
    /\ (pc = "frame_new" /\ (pc' # pc \/ retries' # retries)) =>
          \/ pc' = "idle" /\ retries' = 0
          \/ pc' = "frame_new" /\ retries' = retries + 1 /\ moved' = moved
    /\ (pc = "frame_new" /\ pc' = "frame_new" /\ retries' # retries) =>
          /\ ops'[1] = Cmd("get_current_texture", "Outdated")
          /\ sc_desc # window
          /\ sc_desc' = window
    /\ (pc = "frame_new" /\ pc' = "idle" /\ last'.ret.tag = "Err") =>
          /\ ops' = <<Cmd("get_current_texture", last'.ret.val)>>
          /\ last'.ret.val = "Outdated" => sc_desc = window
          /\ sc_desc' = sc_desc

\* C24: Viewport::begin_frame terminates: while it runs it can always take
\* its next step, every step returns or is a call to itself as C24 describes
\* it, and the calls to itself number at most one more than the changes of
\* the window's size since the call began, so at most one when the size
\* stays fixed and finitely many when it changes finitely often.
C24_BeginFrameTerminates ==
    /\ [](pc = "frame_new" => (retries <= moved + 1 /\ ENABLED FrameNew))
    /\ [][BeginFrameStep]_vars

\* begin_frame has called itself once, after adopting the window's size, with
\* the window's size fixed since the call began.
C24_Witness ==
    /\ pc = "frame_new"
    /\ retries = 1
    /\ moved = 0
    /\ sc_desc = window
    /\ Has(ops, "get_current_texture")

\* C25: no operation that evaluates query_index() does so with no label
\* present: begin_section / timestamp / begin_stats, a render pass begun and
\* a frame begun never panic on the subtraction query_count() - 1, and no
\* write_timestamp or begin_pipeline_statistics_query they record targets a
\* wrapped-around slot (negative here, 2^32 - 1 in the build).
C25_QueryIndexNeverUnderflows ==
    last.op \in {"timestamp", "begin_stats", "begin_render_pass", "begin_frame"} =>
        /\ ~panicked
        /\ \A i \in 1..Len(ops) :
              ops[i].cmd \in {"write_timestamp", "begin_pipeline_statistics_query"} =>
                  ops[i].arg >= 0

\* C26: within one Frame, a render pass begun through
\* RenderPassBuilder::begin never begins its pipeline-statistics query at a
\* slot where an earlier pass of that Frame began one, whatever the
\* capabilities of the device.
C26_DistinctStatisticsSlots ==
    [][(frame /\ frame' /\ ~pass.open /\ pass'.open
            /\ last'.op = "begin_render_pass") =>
           StatisticsBegunAt(ops') \cap stat_slots = {}
      ]_vars

\* C27: the range of queries that a resolve hands to resolve_query_set lies
\* within the QuerySet, which holds MAX_QUERIES queries: whenever
\* Profiler::resolve has recorded its command with at most MAX_QUERIES labels
\* present, the end of the range is at most MAX_QUERIES.
C27_ResolveRangeWithinSet ==
    (last.op = "resolve" /\ ~panicked /\ query_count(markers) <= MAX_QUERIES) =>
        \A i \in 1..Len(ops) :
            ops[i].cmd = "resolve_query_set" =>
                /\ ops[i].arg.range[1] = 0
                /\ ops[i].arg.range[2] <= MAX_QUERIES

\* How many commands named c with the argument a the effect list `o` holds.
CountOf(o, c, a) ==
    Cardinality({i \in 1..Len(o) : o[i].cmd = c /\ o[i].arg = a})

\* C28: the wgpu encoder a CommandEncoder wraps is finished once, by finish()
\* or by the drop and not by both, and its command buffer is submitted at
\* most once: no operation finishes or submits the same encoder twice, none
\* panics on it, and the encoder that a Buffer resize creates is finished
\* exactly once.
C28_EncoderFinishedOnce ==
    \A enc \in {"frame", "resize"} :
        /\ CountOf(ops, "finish", enc) <= 1
        /\ CountOf(ops, "submit", enc) <= 1
        /\ CountOf(ops, "create_command_encoder", enc) = 1 /\ enc = "resize" =>
              (~panicked /\ CountOf(ops, "finish", enc) = 1)

\* C29: while two Frames of one Gpu are alive, whatever happens to the other
\* one, its drop included, a section that the surviving Frame begins writes
\* its timestamp at a query index that this Frame's encoder has not written
\* before.
C29_SurvivorIndicesFresh ==
    [][(frame2.alive /\ frame2'.alive /\ last'.op = "frame2_render_pass") =>
           TimestampsWrittenAt(ops') \cap frame2.written = {}
      ]_vars

\* C30: whenever a resize of a Buffer copies the old contents into the new
\* buffer, the bytes copied are at most the size the new buffer was created
\* with, and once the resize has returned the recorded size is that size.
C30_CopyFitsNewBuffer ==
    Has(ops, "copy_buffer_to_buffer") =>
        LET copied == ops[Pos(ops, "copy_buffer_to_buffer")].arg
            created == ops[Pos(ops, "create_buffer")].arg
        IN /\ copied <= created
           /\ ~panicked => buffer_size = created

====
